---- MODULE Spec2Model ----
(***************************************************************************)
(* Model of the serverless async messaging gateway:                        *)
(*   - the Message REST API that stamps a message and puts it on the       *)
(*     Messages FIFO queue (lib/gateway.ts, createMessageApi),              *)
(*   - the websocket $connect route that writes the Connections table      *)
(*     (lib/gateway.ts, createMessagesWebsocket),                           *)
(*   - the EventBridge pipe and the SendMessage state machine              *)
(*     (lib/gateway.ts createSendMessageSfn, assets/SendMessage.asl),      *)
(*   - the SendUnsentMessages Lambda fed by the Connections stream         *)
(*     (lib/gateway.SendUnsentMessages.mjs),                               *)
(*   - the temporary-token Generator and Authorizer Lambdas                *)
(*     (lib/authentication.Generator.mjs, lib/authentication.Authorizer.mjs).*)
(***************************************************************************)
EXTENDS Integers, Sequences, FiniteSets, TLC

\* ------------------------------------------------------------------ bounds
\* Messages accepted by the Message API in one behaviour.
MaxMsgs == 2
\* Largest value of $context.requestTimeEpoch (milliseconds, abstracted).
MaxClock == 2
\* Websocket connections opened in one behaviour.
MaxConnects == 2
\* Messages the pipe hands to one SendMessage execution.
MaxBatch == 2
\* Stream records handed to one SendUnsentMessages invocation.
MaxRecords == 2
\* Injected service faults (push errors, rejected queue entries).
MaxFaults == 1
\* Environment events in one behaviour: requests, connects and faults together.
MaxEvents == 3
\* Pending messages in the store at the start of SpecReplay.
MaxPending == 11

\* Tokens the Generator issues in one behaviour.
MaxTokens == 2
\* Authorizer invocations in one behaviour.
MaxInvocations == 2
\* Latest time (half seconds) at which the Generator is asked for a token.
MaxIssueAt == 1
\* Requests the Message API answers in one behaviour of SpecIngest.
MaxRequests == 2
\* Injected faults and environment events in one behaviour of SpecRetry.
MaxRetryFaults == 3
MaxRetryEvents == 4
\* Environment events (posts and connects) in one behaviour of SpecPush.
MaxPushEvents == 3
\* Longest string safeStringEquals is called with.
MaxStrLen == 2
\* Largest timestamp the number conversions are tried on.
MaxSample == 120
\* Messages posted in the reconnect scenario (a, b, c).
ScenarioLen == 3

\* -------------------------------------------------------- program constants
PageSize == 10
MaxReceiveCount == 3
TOKEN_EXP_SECONDS == 30
MAX_CLOCK_DRIFT_SECONDS == 5
\* The context value 'max-message-size' the stack is deployed with.
MaxMessageSize == 2
\* The SERVICE environment variable of both token Lambdas.
SERVICE == "service"

Users == {"u1", "u2"}

VARIABLES
    clock,      \* requestTimeEpoch of the latest accepted request
    accepted,   \* history: bodies the Message API put on the queue, in order
    queue,      \* Messages FIFO queue: visible entries [body, rc], oldest first
    dlq,        \* MessagesDeadLetterQueue
    execs,      \* running SendMessage executions (one per pipe batch)
    conns,      \* Connections table: userId -> {connectionId}, {} when no item
    live,       \* the websocket connection each client holds open, {} when none
    nconn,      \* connectionIds handed out so far
    stream,     \* Connections table stream records awaiting the Lambda
    store,      \* Messages table: set of items keyed by (userId, timestamp)
    rp,         \* the SendUnsentMessages invocation in progress
    received,   \* history: what each client has been pushed, in order
    faults,     \* injected faults still allowed
    budget,     \* environment events still allowed
    attempt,    \* history: the latest orchestration attempt started
    maxStarted, \* history: per user, the largest timestamp attempted so far
    hist,       \* history: replay runs finished since the last other change
    lastConn,   \* history: per user, the connectionId of the latest $connect
    restored,   \* history: items stored again while their replay delete is due
    now,        \* wall clock of the token Lambdas, in half seconds
    tokens,     \* TempTokens table: the items (encrypted tokens) it holds
    issued,     \* history: every token a client may present
    auth,       \* the Authorizer invocations: position and result of each
    response,   \* history: the Message API's latest request and its answer
    inflight,   \* requests the Message API has stamped and not yet enqueued
    cmp         \* the call of safeStringEquals under way: arguments and locals

\* The state of the token service and of the Message API's request handling.
sideVars == <<now, tokens, issued, auth, response, inflight, cmp>>

vars == <<clock, accepted, queue, dlq, execs, conns, live, nconn, stream,
          store, rp, received, faults, budget, attempt, maxStarted, hist,
          lastConn, restored, now, tokens, issued, auth, response, inflight, cmp>>

\* ------------------------------------------------------------------ helpers
Max(a, b) == IF a >= b THEN a ELSE b
Min(a, b) == IF a <= b THEN a ELSE b

Range(s) == {s[i] : i \in 1..Len(s)}

RECURSIVE SelectIdx(_, _, _)
\* The subsequence of s at the indices in S, in order, from index i on.
SelectIdx(s, S, i) ==
    IF i > Len(s) THEN <<>>
    ELSE (IF i \in S THEN <<s[i]>> ELSE <<>>) \o SelectIdx(s, S, i + 1)

\* ------------------------------------------------------------ history
\* The summary of one replay run (the handler's work on one stream record):
\* the user's pending count when it started, the entries it re-injected, the
\* items it deleted, and whether it returned a batchItemFailure.
Summary(u, failed, start, inj, del) ==
    [userId |-> u, failed |-> failed, start |-> start, inj |-> inj, del |-> del]

NoRun == Summary("", FALSE, 0, 0, 0)

\* Marks a replay run during which something else touched the user's state.
Dirty == Summary("dirty", FALSE, 0, 0, 0)

\* The handler has not been invoked, or has returned.
Idle == [state |-> "idle", records |-> <<>>, r |-> 0, cursor |-> {},
         page |-> <<>>, ok |-> {}, start |-> 0, inj |-> 0, del |-> 0,
         last |-> NoRun]

\* The user the handler's outer loop is at.
ReplayUser == rp.records[rp.r].userId

Replaying(u) == rp.state # "idle" /\ ReplayUser = u

\* hist[u] lists the replay runs for u that ended, one right after the other,
\* with no other step on u's messages or connection before, between or during
\* them.  Any such step empties it.
TouchHist(us) ==
    hist' = [u \in Users |->
               IF u \notin us THEN hist[u]
               ELSE IF Replaying(u) THEN <<Dirty>> ELSE <<>>]

Remember(u, sum) ==
    hist' = [hist EXCEPT ![u] =
               IF @ = <<Dirty>> THEN <<>>
               ELSE IF Len(@) < 2 THEN Append(@, sum) ELSE <<@[2], sum>>]

\* ------------------------------------------------------------- Message API
\* The mapping template: the request body with timestamp set to
\* $context.requestTimeEpoch.
MessageBody(u, t, p) == [userId |-> u, timestamp |-> t, message |-> p]

\* SQS SendMessage on the FIFO queue: a new entry at the tail, never received.
SqsSend(q, body) == Append(q, [body |-> body, rc |-> 0, replay |-> FALSE])

\* POST /message for user u.  The payload is the request's ordinal, so every
\* accepted message can be told apart.  Time may or may not have advanced since
\* the previous request (requestTimeEpoch has millisecond resolution).
PostMessage(u) ==
    /\ Len(accepted) < MaxMsgs
    /\ budget > 0
    /\ budget' = budget - 1
    /\ \E t \in clock..Min(clock + 1, MaxClock) :
         LET body == MessageBody(u, t, Len(accepted) + 1) IN
         /\ clock' = t
         /\ accepted' = Append(accepted, [body |-> body, offline |-> live[u] = {}])
         /\ queue' = SqsSend(queue, body)
         /\ response' = [n |-> response.n + 1, status |-> 200,
                         req |-> [userId |-> u, message |-> body.message]]
    /\ TouchHist({u})
    /\ UNCHANGED <<dlq, execs, conns, live, nconn, stream, store, rp, received,
                   faults, attempt, maxStarted>>
    /\ UNCHANGED <<lastConn, restored, now, tokens, issued, auth, inflight, cmp>>

\* POST /message of two producers at once, in its two steps.  First the
\* Message API receives the request: $context.requestTimeEpoch is fixed.
Stamp(u) ==
    /\ Len(accepted) + Cardinality(inflight) < MaxMsgs
    /\ \E t \in clock..Min(clock + 1, MaxClock) :
         /\ clock' = t
         /\ inflight' = inflight \cup
              {MessageBody(u, t, Len(accepted) + Cardinality(inflight) + 1)}
    /\ UNCHANGED <<accepted, queue, dlq, execs, conns, live, nconn, stream,
                   store, rp, received, faults, budget, attempt, maxStarted,
                   hist, lastConn, restored, now, tokens, issued, auth, response,
                   cmp>>

\* Then the integration's SendMessage reaches the queue, for one of the
\* requests under way.
Enqueue(body) ==
    /\ body \in inflight
    /\ inflight' = inflight \ {body}
    /\ accepted' = Append(accepted, [body |-> body,
                                     offline |-> live[body.userId] = {}])
    /\ queue' = SqsSend(queue, body)
    /\ response' = [n |-> response.n + 1, status |-> 200,
                    req |-> [userId |-> body.userId, message |-> body.message]]
    /\ TouchHist({body.userId})
    /\ UNCHANGED <<clock, dlq, execs, conns, live, nconn, stream, store, rp,
                   received, faults, budget, attempt, maxStarted, lastConn,
                   restored, now, tokens, issued, auth, cmp>>

\* ------------------------------------------------------ websocket $connect
\* The stream record DynamoDB emits for a PutItem on the Connections table.
StreamRecord(u, old) ==
    [userId |-> u, eventName |-> IF old = {} THEN "INSERT" ELSE "MODIFY"]

\* Faulty variant: a filter that lets only the first connect of a user pass.
StreamFilterInsertOnly(rec) == rec.eventName = "INSERT"

\* The event source filter of the SendUnsentMessages Lambda.
StreamFilter(rec) == rec.eventName \in {"INSERT", "MODIFY"}

\* Faulty variant: a table whose key is not the userId keeps the earlier item.
ConnectionsAddItem(old, c) == old \cup {c}

\* dynamodb PutItem on the Connections table (partition key userId): the new
\* item replaces the user's earlier item.
ConnectionsPutItem(old, c) == {c}

\* $connect of user u's client: the integration puts (userId, connectionId).
Connect(u) ==
    /\ nconn < MaxConnects
    /\ budget > 0
    /\ budget' = budget - 1
    /\ nconn' = nconn + 1
    /\ conns' = [conns EXCEPT ![u] = ConnectionsPutItem(@, nconn + 1)]
    /\ live' = [live EXCEPT ![u] = {nconn + 1}]
    /\ stream' = IF StreamFilter(StreamRecord(u, conns[u]))
                 THEN Append(stream, StreamRecord(u, conns[u]))
                 ELSE stream
    /\ TouchHist({u})
    /\ UNCHANGED <<clock, accepted, queue, dlq, execs, store, rp, received,
                   faults, attempt, maxStarted>>
    /\ lastConn' = [lastConn EXCEPT ![u] = {nconn + 1}]
    /\ UNCHANGED <<restored, sideVars>>

\* Faulty variant: a $disconnect route that deletes the user's record.
DisconnectDeletes(u) ==
    /\ live[u] # {}
    /\ live' = [live EXCEPT ![u] = {}]
    /\ conns' = [conns EXCEPT ![u] = {}]
    /\ TouchHist({u})
    /\ UNCHANGED <<clock, accepted, queue, dlq, execs, nconn, stream,
                   store, rp, received, faults, budget, attempt, maxStarted>>
    /\ UNCHANGED <<lastConn, restored, sideVars>>

\* The client's socket closes.  No route handles it: the Connections table
\* keeps the record.
Disconnect(u) ==
    /\ live[u] # {}
    /\ live' = [live EXCEPT ![u] = {}]
    /\ TouchHist({u})
    /\ UNCHANGED <<clock, accepted, queue, dlq, execs, conns, nconn, stream,
                   store, rp, received, faults, budget, attempt, maxStarted>>
    /\ UNCHANGED <<lastConn, restored, sideVars>>

\* ------------------------------------------- pipe and SendMessage execution
\* Message groups (userIds) with a message in flight: the FIFO queue hands out
\* no further message of such a group.
InFlightGroups ==
    UNION {{e.batch[j].body.userId : j \in 1..Len(e.batch)} : e \in execs}

\* Faulty variant: a queue that is not FIFO hands out messages of a group in flight.
ReceivableAnyGroup(q) == 1..Len(q)

\* Indices of the queue entries a poll may return, oldest first.
Receivable(q) == {i \in 1..Len(q) : q[i].body.userId \notin InFlightGroups}

\* The first k receivable indices.
FirstK(q, k) ==
    {i \in Receivable(q) : Cardinality({j \in Receivable(q) : j <= i}) <= k}

\* A received entry: its receive count goes up by one.
Receive(entry) == [entry EXCEPT !.rc = entry.rc + 1]

\* History: an orchestration attempt for body starts.
StartAttempt(body) ==
    /\ attempt' = [userId |-> body.userId, timestamp |-> body.timestamp,
                   prevMax |-> maxStarted[body.userId]]
    /\ maxStarted' = [maxStarted EXCEPT
                        ![body.userId] = Max(@, body.timestamp)]

\* The item the Map state is processing in execution e.
Item(e) == e.batch[e.i].body

BatchUsers(e) == {e.batch[j].body.userId : j \in 1..Len(e.batch)}

\* The pipe polls the queue and starts one synchronous execution on the batch;
\* the Map state starts its first item at "Get connectionId".
PipePoll ==
    /\ Receivable(queue) # {}
    /\ \E k \in 1..Min(MaxBatch, Cardinality(Receivable(queue))) :
         LET S == FirstK(queue, k)
             taken == SelectIdx(queue, S, 1)
             batch == [j \in 1..Len(taken) |-> Receive(taken[j])]
             e == [batch |-> batch, i |-> 1, state |-> "Get connectionId",
                   conn |-> {}, eff |-> {}, out |-> <<>>]
         IN /\ queue' = SelectIdx(queue, (1..Len(queue)) \ S, 1)
            /\ execs' = execs \cup {e}
            /\ StartAttempt(batch[1].body)
            /\ TouchHist(BatchUsers(e))
    /\ UNCHANGED <<clock, accepted, dlq, conns, live, nconn, stream, store, rp,
                   received, faults, budget>>
    /\ UNCHANGED <<lastConn, restored, sideVars>>

\* "Get connectionId": dynamodb:getItem on the Connections table.
GetConnectionId(e) ==
    /\ e.state = "Get connectionId"
    /\ execs' = (execs \ {e}) \cup
         {[e EXCEPT !.conn = conns[Item(e).userId], !.state = "Send message?"]}
    /\ TouchHist({Item(e).userId})
    /\ UNCHANGED <<clock, accepted, queue, dlq, conns, live, nconn, stream,
                   store, rp, received, faults, budget, attempt, maxStarted>>
    /\ UNCHANGED <<lastConn, restored, sideVars>>

\* Faulty variant: no Choice state, every item is pushed.
SendMessageChoiceAlways(conn) == "Send message"

\* "Send message?": the Choice on $exists(...Item.connectionId).
SendMessageChoice(conn) ==
    IF conn # {} THEN "Send message" ELSE "Store message"

Choice(e) ==
    /\ e.state = "Send message?"
    /\ execs' = (execs \ {e}) \cup {[e EXCEPT !.state = SendMessageChoice(e.conn)]}
    /\ TouchHist({Item(e).userId})
    /\ UNCHANGED <<clock, accepted, queue, dlq, conns, live, nconn, stream,
                   store, rp, received, faults, budget, attempt, maxStarted>>
    /\ UNCHANGED <<lastConn, restored, sideVars>>

\* The Map state after an item reached "End": the next item, or success.
ItemEnd(e, eff) ==
    IF e.i < Len(e.batch)
    THEN [e EXCEPT !.i = e.i + 1, !.state = "Get connectionId", !.conn = {},
                   !.eff = {}, !.out = Append(e.out, eff)]
    ELSE [e EXCEPT !.state = "SUCCEEDED", !.eff = {}, !.out = Append(e.out, eff)]

\* History of the step that ends an item.
EndAttempt(e) ==
    IF e.i < Len(e.batch)
    THEN StartAttempt(e.batch[e.i + 1].body)
    ELSE UNCHANGED <<attempt, maxStarted>>

\* What @connections POST answers for connectionId set c: delivered when a
\* client holds that connection open, 410 Gone when none does; any call may
\* also fail with another error (5xx, throttling) or get no answer in time.
PushOutcomes(c) ==
    (IF \E v \in Users : live[v] = c THEN {"ok"} ELSE {"ApiGateway.410"})
    \cup (IF faults > 0 /\ budget > 0
          THEN {"ApiGateway.500", "States.Timeout"}
          ELSE {})

\* Faulty variant: "Send message" with Next: "Store message" in place of End: true.
SendMessageNextStores(outcome) ==
    CASE outcome = "ok" -> "Store message"
      [] outcome = "ApiGateway.410" -> "Store message"
      [] OTHER -> "FAILED"

\* Faulty variant: a catcher that sends every other error back to the lookup.
SendMessageNextLoops(outcome) ==
    CASE outcome = "ok" -> "End"
      [] outcome = "ApiGateway.410" -> "Store message"
      [] OTHER -> "Get connectionId"

\* Faulty variant: "Send message" without its Catch.
SendMessageNextNoCatch(outcome) ==
    CASE outcome = "ok" -> "End"
      [] OTHER -> "FAILED"

\* "Send message": where the state goes on each outcome (End, the Catch on
\* ApiGateway.410, or no matching catcher).
SendMessageNext(outcome) ==
    CASE outcome = "ok" -> "End"
      [] outcome = "ApiGateway.410" -> "Store message"
      [] OTHER -> "FAILED"

SendMessage(e) ==
    /\ e.state = "Send message"
    /\ \E outcome \in PushOutcomes(e.conn) :
         LET nxt == SendMessageNext(outcome)
             eff == e.eff \cup {IF outcome = "ok" THEN "pushed" ELSE outcome}
         IN /\ received' = IF outcome = "ok"
                           THEN [v \in Users |->
                                   IF live[v] = e.conn
                                   THEN Append(received[v], Item(e))
                                   ELSE received[v]]
                           ELSE received
            /\ faults' = IF outcome \in {"ok", "ApiGateway.410"} THEN faults
                          ELSE faults - 1
            /\ budget' = IF outcome \in {"ok", "ApiGateway.410"} THEN budget
                          ELSE budget - 1
            /\ execs' = (execs \ {e}) \cup
                 {IF nxt = "End" THEN ItemEnd(e, eff)
                  ELSE [e EXCEPT !.state = nxt, !.eff = eff]}
            /\ IF nxt = "End" THEN EndAttempt(e)
               ELSE UNCHANGED <<attempt, maxStarted>>
    /\ TouchHist({Item(e).userId})
    /\ UNCHANGED <<clock, accepted, queue, dlq, conns, live, nconn, stream,
                   store, rp>>
    /\ UNCHANGED <<lastConn, restored, sideVars>>

\* dynamodb:putItem on the Messages table: the item replaces any item with the
\* same (userId, timestamp) key.
PutItem(table, item) ==
    {r \in table : ~(r.userId = item.userId /\ r.timestamp = item.timestamp)}
    \cup {item}

\* History: execution e is processing an entry the replay run in progress has
\* sent to the queue and has not yet deleted from the Messages table.
AwaitsReplayDelete(e) ==
    /\ e.batch[e.i].replay
    /\ rp.state = "delete"
    /\ \E i \in rp.ok : rp.page[i] = Item(e)

\* "Store message": putItem of (userId, timestamp, message), then End.
StoreMessage(e) ==
    /\ e.state = "Store message"
    /\ store' = PutItem(store, Item(e))
    /\ execs' = (execs \ {e}) \cup {ItemEnd(e, e.eff \cup {"stored"})}
    /\ EndAttempt(e)
    /\ TouchHist({Item(e).userId})
    /\ UNCHANGED <<clock, accepted, queue, dlq, conns, live, nconn, stream, rp,
                   received, faults, budget>>
    /\ restored' = IF AwaitsReplayDelete(e) THEN restored \cup {Item(e)}
                   ELSE restored
    /\ UNCHANGED <<lastConn, sideVars>>

\* The execution succeeded: the pipe deletes the batch from the queue.
PipeDelete(e) ==
    /\ e.state = "SUCCEEDED"
    /\ execs' = execs \ {e}
    /\ TouchHist(BatchUsers(e))
    /\ UNCHANGED <<clock, accepted, queue, dlq, conns, live, nconn, stream,
                   store, rp, received, faults, budget, attempt, maxStarted>>
    /\ UNCHANGED <<lastConn, restored, sideVars>>

\* Faulty variant: a queue without a redrive policy.
NeverDeadLettered(entry) == FALSE

\* The redrive policy: an entry received maxReceiveCount times is not made
\* visible again.
DeadLettered(entry) == entry.rc >= MaxReceiveCount

\* Faulty variant: the failure of the execution is reported to the producer.
PipeRetryAnswers(e) ==
    /\ e.state = "FAILED"
    /\ execs' = execs \ {e}
    /\ queue' = e.batch \o queue
    /\ response' = [response EXCEPT !.status = 500]
    /\ TouchHist(BatchUsers(e))
    /\ UNCHANGED <<clock, accepted, dlq, conns, live, nconn, stream, store, rp,
                   received, faults, budget, attempt, maxStarted, lastConn,
                   restored, now, tokens, issued, auth, inflight, cmp>>

\* Faulty variant: the batch of a failed execution is deleted like that of a
\* succeeded one.
PipeRetryDrops(e) ==
    /\ e.state = "FAILED"
    /\ execs' = execs \ {e}
    /\ TouchHist(BatchUsers(e))
    /\ UNCHANGED <<clock, accepted, queue, dlq, conns, live, nconn, stream,
                   store, rp, received, faults, budget, attempt, maxStarted>>
    /\ UNCHANGED <<lastConn, restored, sideVars>>

\* The execution failed: the batch becomes visible again, ahead of the later
\* messages of its groups; an entry already received maxReceiveCount times
\* moves to the dead-letter queue.
PipeRetry(e) ==
    /\ e.state = "FAILED"
    /\ execs' = execs \ {e}
    /\ LET back == {j \in 1..Len(e.batch) : ~DeadLettered(e.batch[j])}
           dead == (1..Len(e.batch)) \ back
       IN /\ queue' = SelectIdx(e.batch, back, 1) \o queue
          /\ dlq' = dlq \o SelectIdx(e.batch, dead, 1)
    /\ TouchHist(BatchUsers(e))
    /\ UNCHANGED <<clock, accepted, conns, live, nconn, stream, store, rp,
                   received, faults, budget, attempt, maxStarted>>
    /\ UNCHANGED <<lastConn, restored, sideVars>>

\* ------------------------------------------------ SendUnsentMessages Lambda
\* The items of one partition in ascending timestamp order (ScanIndexForward:
\* true); the sort key is unique within the partition, so the item at place
\* i is the one with i - 1 items before it.
Ascending(S) ==
    [i \in 1..Cardinality(S) |->
        CHOOSE x \in S :
            Cardinality({y \in S : y.timestamp < x.timestamp}) = i - 1]

\* One Query call of the paginator: at most pageSize items of user u after
\* the exclusive start key, ascending.
QueryPage(table, u, cursor) ==
    LET all == Ascending({r \in table :
                   /\ r.userId = u
                   /\ \A c \in cursor : r.timestamp > c})
    IN SubSeq(all, 1, Min(PageSize, Len(all)))

\* Faulty variant: the key of the page's first item as the start of the next.
LastEvaluatedKeyFirst(page) ==
    IF Len(page) = PageSize THEN {page[1].timestamp} ELSE {}

\* Faulty variant: a paginator that never continues after the first page.
LastEvaluatedKeyDropped(page) == {}

\* LastEvaluatedKey of that call: set when the Limit was reached.
LastEvaluatedKey(page) ==
    IF Len(page) = PageSize THEN {page[Len(page)].timestamp} ELSE {}

\* The Successful entries SendMessageBatch may report for n entries: all of
\* them, or, when the queue fails, none, all but the first or all but the
\* last (a sample of the partial results the service can return).
SqsOutcomes(n) ==
    {1..n} \cup
    (IF faults > 0 /\ budget > 0
     THEN {{}, 2..n, 1..(n - 1)}
     ELSE {})

RECURSIVE string(_)
\* $string(n) of "Store message": the decimal digits of n, the text of the
\* item's N attribute.
string(n) ==
    IF n < 10 THEN <<n>> ELSE Append(string(n \div 10), n % 10)

RECURSIVE parseInt(_)
\* parseInt(item.timestamp.N): the number the digits spell.
parseInt(digits) ==
    IF Len(digits) = 0 THEN 0
    ELSE 10 * parseInt(SubSeq(digits, 1, Len(digits) - 1)) + digits[Len(digits)]

\* Faulty variant: a MessageBody built without the message.
ReplayEntryNoPayload(item) ==
    [body |-> [userId |-> item.userId,
               timestamp |-> parseInt(string(item.timestamp))],
     rc |-> 0, replay |-> TRUE]

\* Faulty variant: the entry is stamped with the time of the replay.
ReplayEntryRestamped(item) ==
    [body |-> MessageBody(item.userId, clock + 1, item.message), rc |-> 0,
     replay |-> TRUE]

\* The queue entry built for a stored item: userId, the timestamp read back
\* from the N attribute, message.
ReplayEntry(item) ==
    [body |-> MessageBody(item.userId, parseInt(string(item.timestamp)),
                          item.message),
     rc |-> 0, replay |-> TRUE]

\* The Lambda service invokes the handler with the next stream records.
ReplayInvoke ==
    /\ rp.state = "idle"
    /\ stream # <<>>
    /\ \E k \in 1..Min(MaxRecords, Len(stream)) :
         /\ rp' = [Idle EXCEPT !.state = "query", !.last = rp.last,
                               !.records = SubSeq(stream, 1, k), !.r = 1]
         /\ stream' = SubSeq(stream, k + 1, Len(stream))
    /\ UNCHANGED <<clock, accepted, queue, dlq, execs, conns, live, nconn,
                   store, received, faults, budget, attempt, maxStarted, hist>>
    /\ UNCHANGED <<lastConn, restored, sideVars>>

\* The paginator is exhausted for the current record: the next record of the
\* event, or the handler returns {batchItemFailures: []}.
NextRecord(sum) ==
    IF rp.r < Len(rp.records)
    THEN [Idle EXCEPT !.state = "query", !.records = rp.records,
                      !.r = rp.r + 1, !.last = sum]
    ELSE [Idle EXCEPT !.last = sum]

\* Faulty variant: the handler returns no batchItemFailures.
ReturnFailureDropped(sum) ==
    /\ rp' = [Idle EXCEPT !.last = sum]
    /\ stream' = stream

\* The handler returns batchItemFailures = [this record]: the event source
\* delivers the records from this one on again.
ReturnFailure(sum) ==
    /\ rp' = [Idle EXCEPT !.last = sum]
    /\ stream' = SubSeq(rp.records, rp.r, Len(rp.records)) \o stream

\* for await (const page of paginator): one Query, and the Count === 0 test.
ReplayQuery ==
    /\ rp.state = "query"
    /\ LET page == QueryPage(store, ReplayUser, rp.cursor)
           start == IF rp.page = <<>> /\ rp.cursor = {}
                    THEN Cardinality({r \in store : r.userId = ReplayUser})
                    ELSE rp.start
           sum == Summary(ReplayUser, FALSE, start, rp.inj, rp.del)
       IN
       IF Len(page) = 0
       THEN /\ rp' = NextRecord(sum)
            /\ Remember(ReplayUser, sum)
       ELSE /\ rp' = [rp EXCEPT !.state = "send", !.page = page,
                                !.cursor = LastEvaluatedKey(page),
                                !.start = start]
            /\ UNCHANGED hist
    /\ UNCHANGED <<clock, accepted, queue, dlq, execs, conns, live, nconn,
                   stream, store, received, faults, budget, attempt, maxStarted>>
    /\ UNCHANGED <<lastConn, restored, sideVars>>

\* sqs.send(SendMessageBatchCommand): the accepted entries join the queue in
\* page order; with no Successful entry the handler returns a failure.
ReplaySend ==
    /\ rp.state = "send"
    /\ \E ok \in SqsOutcomes(Len(rp.page)) :
         LET entries == SelectIdx([i \in 1..Len(rp.page) |-> ReplayEntry(rp.page[i])],
                                  ok, 1)
             inj == rp.inj + Len(entries)
         IN /\ queue' = queue \o entries
            /\ faults' = IF ok = 1..Len(rp.page) THEN faults ELSE faults - 1
            /\ budget' = IF ok = 1..Len(rp.page) THEN budget ELSE budget - 1
            /\ IF ok = {}
               THEN /\ ReturnFailure(Summary(ReplayUser, TRUE, rp.start, inj, rp.del))
                    /\ Remember(ReplayUser,
                                Summary(ReplayUser, TRUE, rp.start, inj, rp.del))
               ELSE /\ rp' = [rp EXCEPT !.state = "delete", !.ok = ok, !.inj = inj]
                    /\ UNCHANGED <<stream, hist>>
    /\ UNCHANGED <<clock, accepted, dlq, execs, conns, live, nconn, store,
                   received, attempt, maxStarted>>
    /\ UNCHANGED <<lastConn, restored, sideVars>>

\* Faulty variant: the delete request is never applied.
DeleteKeysSkipped(table, items) == table

\* Faulty variant: delete keys that name the timestamp only.
DeleteKeysAnyUser(table, items) ==
    {r \in table : ~\E i \in 1..Len(items) : items[i].timestamp = r.timestamp}

\* BatchWriteItem of DeleteRequests: the keys of the Successful entries.
DeleteKeys(table, items) ==
    {r \in table : ~\E i \in 1..Len(items) :
                       /\ items[i].userId = r.userId
                       /\ items[i].timestamp = r.timestamp}

\* dynamoDB.send(deleteCommand), then the Failed test and the next page.
ReplayDelete ==
    /\ rp.state = "delete"
    /\ LET gone == SelectIdx(rp.page, rp.ok, 1)
           del == rp.del + Cardinality(store \ DeleteKeys(store, gone))
       IN /\ store' = DeleteKeys(store, gone)
          /\ IF rp.ok # 1..Len(rp.page)
             THEN /\ ReturnFailure(Summary(ReplayUser, TRUE, rp.start, rp.inj, del))
                  /\ Remember(ReplayUser,
                              Summary(ReplayUser, TRUE, rp.start, rp.inj, del))
             ELSE IF rp.cursor # {}
             THEN /\ rp' = [rp EXCEPT !.state = "query", !.page = <<>>,
                                      !.ok = {}, !.del = del]
                  /\ UNCHANGED <<stream, hist>>
             ELSE /\ rp' = NextRecord(Summary(ReplayUser, FALSE, rp.start, rp.inj, del))
                  /\ Remember(ReplayUser,
                              Summary(ReplayUser, FALSE, rp.start, rp.inj, del))
                  /\ UNCHANGED stream
    /\ UNCHANGED <<clock, accepted, queue, dlq, execs, conns, live, nconn,
                   received, faults, budget, attempt, maxStarted>>
    /\ restored' = {}
    /\ UNCHANGED <<lastConn, sideVars>>

\* --------------------------------------------------------- safeStringEquals
\* JavaScript values: strings (their UTF-16 code units), undefined, numbers.
Chars == {97, 98, 354}

Strings == UNION {[1..n -> Chars] : n \in 0..MaxStrLen}

Undefined == [type |-> "undefined"]

Values ==
    {[type |-> "string", chars |-> c] : c \in Strings}
    \cup {Undefined, [type |-> "number", value |-> 97]}

RECURSIVE BitXor(_, _)
\* x ^ y on non-negative integers.
BitXor(x, y) ==
    IF x = 0 /\ y = 0 THEN 0
    ELSE (((x % 2) + (y % 2)) % 2) + 2 * BitXor(x \div 2, y \div 2)

RECURSIVE BitOr(_, _)
\* x | y on non-negative integers.
BitOr(x, y) ==
    IF x = 0 /\ y = 0 THEN 0
    ELSE (IF x % 2 = 1 \/ y % 2 = 1 THEN 1 ELSE 0)
         + 2 * BitOr(x \div 2, y \div 2)

\* Faulty variant: result = in place of result |=.
AccumulateAssigned(result, x, y) == BitXor(x, y)

\* result |= a.charCodeAt(i) ^ b.charCodeAt(i).
Accumulate(result, x, y) == BitOr(result, BitXor(x, y))

\* No call under way.
NoCompare == [pc |-> "none"]

\* safeStringEquals(a, b) up to the loop: the typeof test and the length
\* test, each returning false.
EqualsEnter ==
    /\ cmp.pc = "enter"
    /\ cmp' = IF cmp.a.type # "string" \/ cmp.b.type # "string"
              THEN [cmp EXCEPT !.pc = "returned", !.ret = FALSE]
              ELSE IF Len(cmp.a.chars) # Len(cmp.b.chars)
              THEN [cmp EXCEPT !.pc = "returned", !.ret = FALSE]
              ELSE [cmp EXCEPT !.pc = "loop"]
    /\ UNCHANGED <<clock, accepted, queue, dlq, execs, conns, live, nconn, stream,
                   store, rp, received, faults, budget, attempt, maxStarted,
                   hist, lastConn, restored, now, tokens, issued, auth, response,
                   inflight>>

\* One round of the for loop (i counts from 1 here).
EqualsLoop ==
    /\ cmp.pc = "loop"
    /\ cmp.i <= Len(cmp.a.chars)
    /\ cmp' = [cmp EXCEPT !.i = cmp.i + 1,
                          !.result = Accumulate(cmp.result, cmp.a.chars[cmp.i],
                                                cmp.b.chars[cmp.i])]
    /\ UNCHANGED <<clock, accepted, queue, dlq, execs, conns, live, nconn, stream,
                   store, rp, received, faults, budget, attempt, maxStarted,
                   hist, lastConn, restored, now, tokens, issued, auth, response,
                   inflight>>

\* return result === 0.
EqualsReturn ==
    /\ cmp.pc = "loop"
    /\ cmp.i > Len(cmp.a.chars)
    /\ cmp' = [cmp EXCEPT !.pc = "returned", !.ret = (cmp.result = 0)]
    /\ UNCHANGED <<clock, accepted, queue, dlq, execs, conns, live, nconn, stream,
                   store, rp, received, faults, budget, attempt, maxStarted,
                   hist, lastConn, restored, now, tokens, issued, auth, response,
                   inflight>>

\* ------------------------------------------------------------ token service
\* The variables of the gateway proper.
gatewayVars == <<clock, accepted, queue, dlq, execs, conns, live, nconn, stream,
                 store, rp, received, faults, budget, attempt, maxStarted, hist,
                 lastConn, restored, inflight, cmp>>

\* Last instant of a behaviour: past the expiry of every token.
MaxNow == 2 * (TOKEN_EXP_SECONDS + MAX_CLOCK_DRIFT_SECONDS + 1) + MaxIssueAt

\* Up to this instant every token issued by MaxIssueAt still passes the
\* expiry test; the time-to-live sweep may run as well at this instant as at
\* any earlier one.
QuietUntil == 2 * (TOKEN_EXP_SECONDS + MAX_CLOCK_DRIFT_SECONDS) - 3

\* epoch(): Math.round of the time in seconds; t counts half seconds.
epoch(t) == (t + 1) \div 2

\* The token the Generator builds at time t for user u (at: history, the
\* instant it was built); id stands for its ciphertext, unique per encryption.
Token(id, service, t, u) ==
    [id |-> id, iss |-> service, exp |-> epoch(t) + TOKEN_EXP_SECONDS,
     sub |-> u, aud |-> service, at |-> t]

\* A token left in the table by a deployment with another service name.
LegacyToken == Token(0, "legacy", 0, "u1")

\* A ciphertext that was never stored.
UnknownId == MaxTokens + 1

\* store(token, exp): the item put into the TempTokens table.
TokenItem(tk) == [token |-> tk.id, ttl |-> tk.exp]

\* decrypt(msg): the token the ciphertext was made from; KMS refuses any
\* other ciphertext, which leaves the handler without a token to accept.
decrypt(id) ==
    IF \E tk \in issued : tk.id = id
    THEN CHOOSE tk \in issued : tk.id = id
    ELSE Token(id, "", 0, "")

Procs == 1..MaxInvocations

NotInvoked == [pc |-> "start", token |-> 0, removed |-> FALSE,
               result |-> "", at |-> 0]

\* The Generator handler: build, encrypt and store a token for user u.
Generate(u) ==
    /\ Cardinality(issued \ {LegacyToken}) < MaxTokens
    /\ now <= MaxIssueAt
    /\ LET tk == Token(Cardinality(issued \ {LegacyToken}) + 1, SERVICE, now, u)
       IN /\ issued' = issued \cup {tk}
          /\ tokens' = tokens \cup {TokenItem(tk)}
    /\ UNCHANGED <<now, auth, response, gatewayVars>>

\* DynamoDB's time-to-live sweep removes an item whose ttl has passed.
TtlExpire ==
    /\ \E it \in tokens :
         /\ it.ttl < epoch(now)
         /\ tokens' = tokens \ {it}
    /\ UNCHANGED <<now, issued, auth, response, gatewayVars>>

\* Faulty variant: the token is looked up and left in the table.
removeFromTableKept(table, id) ==
    [table |-> table, removed |-> \E it \in table : it.token = id]

\* Faulty variant: the delete result is not looked at.
removeFromTableUnchecked(table, id) ==
    [table |-> {it \in table : it.token # id}, removed |-> TRUE]

\* removeFromTable(token): DeleteItem with ReturnValues ALL_OLD, one atomic
\* call; true when the returned item carries the token.
removeFromTable(table, id) ==
    [table |-> {it \in table : it.token # id},
     removed |-> \E it \in table : it.token = id]

\* The Authorizer handler up to its first await: the token is taken from the
\* table, and "Token not found" is thrown when it was not there.  Invocations
\* are numbered in the order they start.
AuthRemove(p, id) ==
    /\ auth[p].pc = "start"
    /\ \A q \in Procs : q < p => auth[q].pc # "start"
    /\ LET r == removeFromTable(tokens, id)
       IN /\ tokens' = r.table
          /\ auth' = [auth EXCEPT ![p] =
                        IF r.removed
                        THEN [@ EXCEPT !.pc = "decrypt", !.token = id,
                                       !.removed = TRUE]
                        ELSE [@ EXCEPT !.pc = "done", !.token = id,
                                       !.result = "Unauthorized"]]
    /\ UNCHANGED <<now, issued, response, gatewayVars>>

\* Faulty variant: the expiry is not compared with the clock.
ValidIgnoringExp(token, time) ==
    ~(token.iss # SERVICE \/ token.aud # SERVICE)

\* The handler's test of the decrypted token against the clock.
Valid(token, time) ==
    ~(\/ token.iss # SERVICE
      \/ token.exp + MAX_CLOCK_DRIFT_SECONDS <= time
      \/ token.aud # SERVICE)

\* The rest of the handler: decrypt, read the clock, return the Allow policy
\* or throw Unauthorized.
AuthValidate(p) ==
    /\ auth[p].pc = "decrypt"
    /\ auth' = [auth EXCEPT ![p] =
                  IF Valid(decrypt(auth[p].token), epoch(now))
                  THEN [@ EXCEPT !.pc = "done", !.result = "Allow", !.at = now]
                  ELSE [@ EXCEPT !.pc = "done", !.result = "Unauthorized"]]
    /\ UNCHANGED <<now, tokens, issued, response, gatewayVars>>

\* Faulty variant: a principal that does not come from the token.
principalIdFixed(token) == "u1"

\* principalId: token.sub, which the $connect integration's template writes
\* as the record's userId ($context.authorizer.principalId).
principalId(token) == token.sub

\* $connect with a token the Authorizer allowed: the integration puts
\* (principalId, connectionId); the connection is the socket of the client
\* the token was generated for.
ConnectAuthorized(p) ==
    /\ auth[p].pc = "done"
    /\ auth[p].result = "Allow"
    /\ nconn < MaxConnects
    /\ budget > 0
    /\ LET token == decrypt(auth[p].token)
           u == principalId(token)
           rec == StreamRecord(u, conns[u])
       IN /\ conns' = [conns EXCEPT ![u] = ConnectionsPutItem(@, nconn + 1)]
          /\ live' = [live EXCEPT ![token.sub] = {nconn + 1}]
          /\ stream' = IF StreamFilter(rec) THEN Append(stream, rec) ELSE stream
          /\ lastConn' = [lastConn EXCEPT ![u] = {nconn + 1}]
          /\ TouchHist({u})
    /\ budget' = budget - 1
    /\ nconn' = nconn + 1
    /\ auth' = [auth EXCEPT ![p].pc = "connected"]
    /\ UNCHANGED <<clock, accepted, queue, dlq, execs, store, rp, received,
                   faults, attempt, maxStarted, restored, now, tokens, issued,
                   response, inflight, cmp>>

\* Time passes: half a second, or, once no more token is issued, the whole
\* stretch in which no token can expire.
Tick ==
    /\ now < MaxNow
    /\ now' = IF now >= MaxIssueAt /\ now < QuietUntil THEN QuietUntil
              ELSE now + 1
    /\ UNCHANGED <<tokens, issued, auth, response, gatewayVars>>

\* ------------------------------------------- Message API request validation
\* Message texts by length, up to one character more than maxLength.
Texts == {[i \in 1..n |-> "x"] : n \in 1..(MaxMessageSize + 1)}

\* Request bodies: JSON objects with or without each of the two properties.
Requests ==
    [userId : Users, message : Texts] \cup [userId : Users] \cup [message : Texts]

NoResponse == [n |-> 0, status |-> 0]

Has(req, field) == field \in DOMAIN req

\* Faulty variant: a model without maxLength.
ValidateBodyAnyLength(req) == TRUE

\* MessageModel: an object; userId a string; message a string of at most
\* maxLength characters.  The schema lists no required property.
ValidateBody(req) ==
    Has(req, "message") => Len(req.message) <= MaxMessageSize

\* MessageGroupId=$util.urlEncode($input.path('$.userId')).
MessageGroupId(req) == IF Has(req, "userId") THEN req.userId ELSE ""

\* The mapping template on an arbitrary body: the body with timestamp set.
RequestTemplate(req, t) ==
    [f \in DOMAIN req \cup {"timestamp"} |->
        IF f = "timestamp" THEN t ELSE req[f]]

\* POST /message with body req: the request validator, then the SQS
\* integration; the FIFO queue refuses a SendMessage without MessageGroupId,
\* and the integration response maps every 4xx to 400.
PostRequest(req) ==
    /\ response.n < MaxRequests
    /\ \E t \in clock..Min(clock + 1, MaxClock) :
         IF ValidateBody(req) /\ MessageGroupId(req) # ""
         THEN /\ queue' = SqsSend(queue, RequestTemplate(req, t))
              /\ clock' = t
              /\ response' = [n |-> response.n + 1, status |-> 200, req |-> req]
         ELSE /\ response' = [n |-> response.n + 1, status |-> 400, req |-> req]
              /\ UNCHANGED <<queue, clock>>
    /\ UNCHANGED <<accepted, dlq, execs, conns, live, nconn, stream, store, rp,
                   received, faults, budget, attempt, maxStarted, hist,
                   lastConn, restored, now, tokens, issued, auth, inflight, cmp>>

\* ------------------------------------------------------------------ claims
\* Nothing is left to run: no visible or in-flight message, no stream record,
\* no handler invocation.
Quiescent ==
    /\ queue = <<>>
    /\ execs = {}
    /\ stream = <<>>
    /\ rp.state = "idle"

\* User u's client holds open the connection the Connections table names.
Connected(u) == live[u] # {} /\ conns[u] = live[u]

\* The bodies of user u the Message API accepted, in order.
AcceptedOf(u) ==
    SelectIdx([i \in 1..Len(accepted) |-> accepted[i].body],
              {i \in 1..Len(accepted) : accepted[i].body.userId = u}, 1)

\* The position of the first occurrence of x in s (0 when absent).
FirstPos(s, x) ==
    IF x \in Range(s) THEN CHOOSE i \in 1..Len(s) : s[i] = x /\ \A j \in 1..(i - 1) : s[j] # x
    ELSE 0

\* C1 (at-least-once): every accepted message is eventually pushed to its
\* user's client once the user is connected and stays connected.  Stated on
\* the states where nothing is left to run: there the user is connected, no
\* step other than a new request or a new connect is possible, so a message
\* not yet pushed never will be.
C1_AtLeastOnce ==
    \A i \in 1..Len(accepted) :
        LET m == accepted[i].body IN
        (Quiescent /\ Connected(m.userId)) => m \in Range(received[m.userId])

\* C2 (ordering after reconnect): two messages accepted for the same user while
\* that user was disconnected reach the client in the order they were accepted
\* (stated for messages with different timestamps, first deliveries compared).
C2_OrderAfterReconnect ==
    \A i, j \in 1..Len(accepted) :
        LET a == accepted[i].body
            b == accepted[j].body
            got == received[a.userId]
        IN (/\ i < j
            /\ a.userId = b.userId
            /\ a.timestamp < b.timestamp
            /\ accepted[i].offline /\ accepted[j].offline
            /\ a \in Range(got) /\ b \in Range(got))
           => FirstPos(got, a) < FirstPos(got, b)

\* C3 (non-decreasing attempts): the orchestrator never starts an attempt for a
\* timestamp smaller than one it already attempted for the same user.
C3_AttemptsNonDecreasing ==
    attempt # <<>> => attempt.timestamp >= attempt.prevMax

\* The executions in which the Map state is working on an item of user u.
Active(u) ==
    {e \in execs : e.state \notin {"SUCCEEDED", "FAILED"} /\ Item(e).userId = u}

\* The executions that hold a message of user u in flight.
Holding(u) == {e \in execs : u \in BatchUsers(e)}

C4_ParallelUsers ==
    \E u, v \in Users : u # v /\ Active(u) # {} /\ Active(v) # {}

\* C5 (fail-safe): a push that fails with an error other than ApiGateway.410
\* takes the run to "Store message".
C5_FailSafeStore ==
    [][\A e \in execs :
          (e.state = "Send message" /\ e \notin execs' /\ faults' < faults)
          => [e EXCEPT !.state = "Store message"] \in execs']_vars

\* The bodies visible on the queue.
Visible == {queue[i].body : i \in 1..Len(queue)}

\* C6 (lifecycle exclusivity): no message is on the queue and in the store at
\* the same time.
C6_QueueStoreExclusive == \A r \in store : r \notin Visible

\* C7 (sequence uniqueness): the timestamps the Message API assigns to one
\* user's messages are strictly increasing.
C7_StrictlyIncreasing ==
    \A u \in Users :
        \A i, j \in 1..Len(AcceptedOf(u)) :
            i < j => AcceptedOf(u)[i].timestamp < AcceptedOf(u)[j].timestamp

\* The effects of every item an execution has worked on.
Effects(e) == Range(e.out) \cup {e.eff}

\* C8 (no duplicate storage): a run whose push succeeded does not execute
\* "Store message".
C8_PushedNotStored ==
    \A e \in execs : \A eff \in Effects(e) : "pushed" \in eff => "stored" \notin eff

\* C8 witness: a run ended after a successful push.
C8_Witness == \E e \in execs : {"pushed"} \in Range(e.out)

\* The items of user u in the Messages table.
Pending(u) == {r \in store : r.userId = u}

\* The second of two replay runs in succession did nothing and left nothing.
SecondRunNoOp(u) ==
    /\ hist[u][2].inj = 0
    /\ hist[u][2].del = 0
    /\ Pending(u) = {}

AllReceived ==
    \A i \in 1..Len(accepted) :
        accepted[i].body \in Range(received[accepted[i].body.userId])

NoStoreState == \A e \in execs : e.state # "Store message"

\* C11 (token single use): among the Authorizer invocations that presented the
\* same token, at most one returned the Allow policy; every other one that has
\* returned threw Unauthorized.
C11_TokenSingleUse ==
    \A p \in Procs : \A q \in Procs \ {p} :
        (auth[p].pc = "done" /\ auth[q].pc = "done"
         /\ auth[p].token = auth[q].token /\ auth[p].result = "Allow")
        => auth[q].result = "Unauthorized"

\* Two invocations raced on one stored token: one was allowed, one refused.
C11_Witness ==
    \E p \in Procs : \E q \in Procs \ {p} :
        /\ auth[p].pc = "done" /\ auth[q].pc = "done"
        /\ auth[p].token = auth[q].token
        /\ auth[p].result = "Allow"
        /\ auth[q].result = "Unauthorized"

\* C12 (token validation): an invocation returns the Allow policy only if the
\* token was in the table, its issuer and audience are the configured service,
\* and the time of the test is strictly before exp + 5 s, which is itself
\* before issue time + 35 s; every invocation that returned did so with Allow
\* or Unauthorized.
C12_TokenValidation ==
    \A p \in Procs :
        /\ auth[p].pc = "done" => auth[p].result \in {"Allow", "Unauthorized"}
        /\ auth[p].result = "Allow" =>
             LET tk == decrypt(auth[p].token) IN
             /\ auth[p].removed
             /\ tk.iss = SERVICE
             /\ tk.aud = SERVICE
             /\ auth[p].at < 2 * (tk.exp + MAX_CLOCK_DRIFT_SECONDS)
             /\ auth[p].at < tk.at + 2 * (TOKEN_EXP_SECONDS + MAX_CLOCK_DRIFT_SECONDS)

\* One token was allowed after its exp, inside the drift allowance, and one
\* token that was in the table was refused.
C12_Witness ==
    /\ \E p \in Procs : /\ auth[p].result = "Allow"
                        /\ auth[p].at > 2 * decrypt(auth[p].token).exp
    /\ \E q \in Procs : auth[q].result = "Unauthorized" /\ auth[q].removed

\* C13 (most recent connection wins): the Connections table holds at most one
\* item per userId, and it is the connectionId of the user's latest $connect.
C13_MostRecentWins ==
    \A u \in Users : Cardinality(conns[u]) <= 1 /\ conns[u] = lastConn[u]

\* One user connected twice.
C13_Witness ==
    \E u \in Users : /\ nconn = 2
                     /\ conns[u] = {2}
                     /\ \A v \in Users \ {u} : conns[v] = {}

\* The request the Message API has just answered.
Answered == response'.n > response.n

\* C14 (oversized payloads): a request whose message is longer than
\* max-message-size is answered 400 and leaves the queue as it was.
C14_OversizedRejected ==
    [][(/\ Answered
        /\ Has(response'.req, "message")
        /\ Len(response'.req.message) > MaxMessageSize)
       => (response'.status = 400 /\ queue' = queue)]_vars

C14_Witness ==
    /\ response.n > 0
    /\ Has(response.req, "message")
    /\ Len(response.req.message) > MaxMessageSize
    /\ response.status = 400

\* C15 (missing fields): a request without userId or without message is
\* answered with a client error and leaves the queue as it was.
C15_MissingFieldsRejected ==
    [][(/\ Answered
        /\ (~Has(response'.req, "userId") \/ ~Has(response'.req, "message")))
       => (response'.status = 400 /\ queue' = queue)]_vars

\* The entries of a failed execution after the pipe gave them back.
Returned(e) ==
    \A j \in 1..Len(e.batch) :
        IF e.batch[j].rc >= MaxReceiveCount
        THEN e.batch[j] \in Range(dlq') /\ e.batch[j] \notin Range(queue')
        ELSE e.batch[j] \in Range(queue')

\* C16 (bounded retry, then dead letter): no entry is received more than
\* maxReceiveCount times; a visible entry has receives left; the entries of a
\* failed execution all go back to the queue or, with no receive left, to the
\* dead-letter queue, which never gives an entry back.
C16_BoundedRetry ==
    /\ [](/\ \A i \in 1..Len(queue) : queue[i].rc < MaxReceiveCount
          /\ \A e \in execs : \A j \in 1..Len(e.batch) :
                 e.batch[j].rc <= MaxReceiveCount
          /\ \A i \in 1..Len(dlq) : dlq[i].rc = MaxReceiveCount)
    /\ [][/\ \A e \in execs :
               (e.state = "FAILED" /\ e \notin execs') => Returned(e)
          /\ Len(dlq') >= Len(dlq)
          /\ SubSeq(dlq', 1, Len(dlq)) = dlq]_vars

C16_Witness == dlq # <<>>

\* The key of item r is no longer in the table after the step.
KeyRemoved(r) ==
    ~\E r2 \in store' : r2.userId = r.userId /\ r2.timestamp = r.timestamp

\* C17 (delete only after a confirmed push): an item leaves the Messages table
\* only when the client has already been pushed that message.
C17_DeleteAfterPush ==
    [][\A r \in store : KeyRemoved(r) => r \in Range(received[r.userId])]_vars

\* C18 (replay delete versus re-store): an item the orchestrator stored again
\* from a re-injected entry, while the replay run's delete of that page was
\* still due, is in the table after every later step of that run.
C18_RestoredSurvives ==
    [][\A r \in restored : r \in store']_vars

\* The successors of execution e in the step: same batch, same item.
After(e) ==
    {f \in execs' \ execs : f.batch = e.batch /\ f.i = e.i /\ e \notin execs'}

\* C19 (absent connection): with no connectionId the item goes from the Choice
\* straight to "Store message" with no push; with one it goes to
\* "Send message", and "Store message" is then reached only from there.
C19_AbsentConnection ==
    [][\A e \in execs : \A f \in After(e) :
         /\ e.state = "Send message?" =>
               /\ f.state = IF e.conn = {} THEN "Store message" ELSE "Send message"
               /\ received' = received /\ store' = store
         /\ (f.state = "Store message" /\ e.state # "Store message") =>
               \/ e.state = "Send message?" /\ e.conn = {} /\ e.eff = {}
               \/ e.state = "Send message" /\ e.conn # {}
         /\ f.state = "Send message" => f.conn # {}]_vars

C19_Witness ==
    \E e \in execs : e.state = "Store message" /\ e.conn = {} /\ e.eff = {}

\* C20 (recipient gone): after a push answered 410 the item is at "Store
\* message", never failed; the step of "Store message" puts exactly the
\* message (userId, timestamp, message) and ends the item without failing the
\* execution.
C20_RecipientGone ==
    /\ [](\A e \in execs :
            /\ "ApiGateway.410" \in e.eff => e.state = "Store message"
            /\ \A j \in 1..Len(e.out) :
                 "ApiGateway.410" \in e.out[j] => "stored" \in e.out[j])
    /\ [][\A e \in execs : \A f \in After(e) :
            e.state = "Store message" =>
               /\ Item(e) \in store'
               /\ DOMAIN Item(e) = {"userId", "timestamp", "message"}
               /\ f.state \in {"Get connectionId", "SUCCEEDED"}]_vars

C20_Witness ==
    \E e \in execs : /\ e.state = "SUCCEEDED"
                     /\ {"ApiGateway.410", "stored"} \in Range(e.out)

\* The place of body m among the accepted messages (0 when absent).
Arrival(m) ==
    FirstPos([i \in 1..Len(accepted) |-> accepted[i].body], m)

\* C22 (store order is arrival order): of two stored messages of one user,
\* the one with the smaller timestamp arrived at the queue first.
C22_StoreOrderIsArrivalOrder ==
    \A r1, r2 \in store :
        (r1.userId = r2.userId /\ r1.timestamp < r2.timestamp)
        => Arrival(r1) < Arrival(r2)

\* The page entries the queue did not accept.
FailedItems == {rp.page[i] : i \in (1..Len(rp.page)) \ rp.ok}

\* The records the event source delivers again after a reported failure.
Redelivered == SubSeq(rp.records, rp.r, Len(rp.records)) \o stream

\* C23 (replay failure policy): when the queue accepts no entry of a page the
\* handler ends without deleting anything; when it accepts only some, the
\* handler deletes and then ends, and the messages that failed stay stored.
\* Either way no further page or record is read and the record is reported
\* for delivery again.
C23_ReplayFailurePolicy ==
    [][/\ (rp.state = "send" /\ rp'.state = "idle")
          => /\ store' = store
             /\ queue' = queue
             /\ rp'.last.failed
             /\ stream' = Redelivered
       /\ (rp.state = "send" /\ rp'.state = "delete")
          => rp'.ok # {}
       /\ (rp.state = "delete" /\ rp.ok # 1..Len(rp.page) /\ rp' # rp)
          => /\ rp'.state = "idle"
             /\ rp'.last.failed
             /\ stream' = Redelivered
             /\ queue' = queue
             /\ \A m \in FailedItems : m \in store => m \in store'
       /\ (rp'.state = "idle" /\ rp.state # "idle" /\ ~rp'.last.failed)
          => /\ rp.state \in {"query", "delete"}
             /\ rp.state = "delete" => rp.ok = 1..Len(rp.page)
      ]_vars

\* A run ended in failure after a page of which only some entries were
\* accepted: it deleted something, a record of the user is still stored, and
\* the stream record waits to be delivered again.
C23_Witness ==
    /\ rp.state = "idle"
    /\ rp.last.failed
    /\ rp.last.del > 0
    /\ stream # <<>>
    /\ \E r \in store : r.userId = rp.last.userId

\* C24 (partial replay failure does not reorder): once a replay run has
\* failed after a page of which only some entries were accepted, the client
\* still sees each restored message for the first time before every message
\* of the same user with a larger timestamp.
C24_PartialFailureKeepsOrder ==
    (rp.state = "idle" /\ rp.last.failed /\ rp.last.inj > 0)
    => LET u == rp.last.userId
       IN \A m1 \in store : \A m2 \in Range(received[u]) :
              (m1.userId = u /\ m1.timestamp < m2.timestamp)
              => /\ m1 \in Range(received[u])
                 /\ FirstPos(received[u], m1) < FirstPos(received[u], m2)

\* A change notification for user u waits in the stream.
Notified(u) == \E i \in 1..Len(stream) : stream[i].userId = u

\* C25 (every connect triggers replay): each put of a connection record,
\* the user's first or a later one, appends a notification carrying the
\* userId; a waiting notification for u leads to a replay run for u; the
\* filter lets no REMOVE record pass.
C25_ConnectTriggersReplay ==
    /\ [][\A u \in Users :
            conns'[u] # conns[u]
            => /\ Len(stream') = Len(stream) + 1
               /\ stream'[Len(stream')].userId = u
               /\ stream'[Len(stream')].eventName =
                     (IF conns[u] = {} THEN "INSERT" ELSE "MODIFY")]_vars
    /\ [](\A u \in Users : ~StreamFilter([userId |-> u, eventName |-> "REMOVE"]))
    /\ \A u \in Users : Notified(u) ~> Replaying(u)

\* A replay run works on the notification of a user's second connect.
C25_Witness ==
    /\ rp.state # "idle"
    /\ rp.records[rp.r].eventName = "MODIFY"

\* C26 (timeout handling): a push that gets no answer in time takes the run
\* to "Store message"; the run does not end otherwise.
C26_TimeoutStores ==
    [][\A e \in execs :
          (e.state = "Send message" /\ e \notin execs')
          => \A f \in execs' \ execs :
                 (f.batch = e.batch /\ f.i = e.i /\ "States.Timeout" \in f.eff)
                 => f.state = "Store message"]_vars

\* C27 (delivery errors are invisible to the producer): the answer to a
\* request is given in the step that enqueues it and is 200 whatever happens
\* to the message later; no step of the pipe or of an execution (a push, a
\* failure, a store, a dead-lettering) changes it.
C27_ProducerSeesNoDeliveryError ==
    [][/\ (\/ execs' # execs \/ store' # store \/ dlq' # dlq
           \/ received' # received)
          => response' = response
       /\ response' # response
          => /\ Len(accepted') = Len(accepted) + 1
             /\ queue' = SqsSend(queue, accepted'[Len(accepted')].body)
             /\ response'.n = response.n + 1
             /\ response'.status = 200
             /\ response'.req.userId = accepted'[Len(accepted')].body.userId
      ]_vars

\* A producer holds a 200 answer and a message has been dead-lettered.
C27_Witness == response.status = 200 /\ Len(dlq) > 0

\* The three messages of the scenario, as accepted.
ScenarioMessages == [i \in 1..Len(accepted) |-> accepted[i].body]

\* C28 (reconnect scenario): with the three messages processed and the user
\* never connected the store lists them in the order they were enqueued; once
\* the user has connected and nothing is left to run, the client has received
\* them in that order and the store holds no record of the user.
C28_ReconnectScenario ==
    /\ (nconn = 0 /\ queue = <<>> /\ execs = {})
       => Ascending({r \in store : r.userId = "u1"}) = ScenarioMessages
    /\ (nconn > 0 /\ Quiescent)
       => /\ received["u1"] = ScenarioMessages
          /\ {r \in store : r.userId = "u1"} = {}

\* Every item of execution e ended with a push or a store.
Completed(e) ==
    /\ Len(e.out) = Len(e.batch)
    /\ \A j \in 1..Len(e.out) : e.out[j] \cap {"pushed", "stored"} # {}

\* C29 (acknowledge after completion): an entry is held by its execution,
\* neither visible nor deleted, until the execution ends; the pipe deletes a
\* batch only when every item of it was pushed or stored, and hands every
\* entry of a failed execution back to the queue or to the dead-letter queue.
C29_AckAfterCompletion ==
    [][Cardinality(execs') < Cardinality(execs)
       => \E e \in execs :
              /\ execs' = execs \ {e}
              /\ \/ e.state = "SUCCEEDED" /\ Completed(e)
                    /\ queue' = queue /\ dlq' = dlq
                 \/ e.state = "FAILED" /\ Returned(e)
                    /\ Len(queue') + Len(dlq') =
                          Len(queue) + Len(dlq) + Len(e.batch)]_vars

\* A failed execution's entry is visible again and the client has not
\* received its message.
C29_Witness ==
    \E i \in 1..Len(queue) :
        /\ queue[i].rc > 0
        /\ queue[i].body \notin Range(received[queue[i].body.userId])
        /\ queue[i].body \notin store

\* The pending records of user v in table.
RecordsOf(table, v) == {r \in table : r.userId = v}

\* C30 (frame): the Connections table changes only in a $connect step, which
\* touches no execution, replay run or pending record; "Get connectionId"
\* reads the record of the item's user; the pending records of user v change
\* only by "Store message" on an item of v or by the delete of a replay run
\* for v.
C30_Frame ==
    [][/\ conns' # conns
          => /\ nconn' = nconn + 1
             /\ execs' = execs /\ rp' = rp /\ store' = store
             /\ \E u \in Users : \A v \in Users \ {u} : conns'[v] = conns[v]
       /\ \A e \in execs :
              (e.state = "Get connectionId" /\ e \notin execs')
              => \E f \in execs' \ execs :
                     f.batch = e.batch /\ f.conn = conns[Item(e).userId]
       /\ \A v \in Users :
              RecordsOf(store', v) # RecordsOf(store, v)
              => \/ \E e \in execs \ execs' :
                        /\ e.state = "Store message"
                        /\ Item(e).userId = v
                        /\ RecordsOf(store', v) = RecordsOf(PutItem(store, Item(e)), v)
                 \/ /\ rp.state = "delete" /\ rp' # rp
                    /\ ReplayUser = v
                    /\ RecordsOf(store', v) \subseteq RecordsOf(store, v)
      ]_vars

\* A replay run has deleted records of its user while a record of another
\* user is stored.
C30_Witness ==
    /\ rp.last.del > 0
    /\ \E r \in store : r.userId # rp.last.userId

\* C31 (connection records are never removed): a user's record, once put,
\* stays; a lookup for a user with a record returns a connectionId and the
\* item goes on to "Send message"; an item that looked up a connectionId
\* is at "Store message" only after its push was answered 410.
C31_RecordsNeverRemoved ==
    /\ [][/\ \A u \in Users : conns[u] # {} => conns'[u] # {}
          /\ \A e \in execs : \A f \in After(e) :
                 /\ (e.state = "Get connectionId" /\ conns[Item(e).userId] # {})
                    => f.conn # {} /\ f.state = "Send message?"
                 /\ (e.state = "Send message?" /\ e.conn # {})
                    => f.state = "Send message"]_vars
    /\ [](\A e \in execs :
             (e.state = "Store message" /\ e.conn # {})
             => "ApiGateway.410" \in e.eff)

\* After a disconnect an item of the user is at "Store message" through a
\* push answered 410.
C31_Witness ==
    \E e \in execs :
        /\ e.state = "Store message"
        /\ live[Item(e).userId] = {}
        /\ e.conn = conns[Item(e).userId]
        /\ "ApiGateway.410" \in e.eff

\* C32 (push target isolation): a record is put under user u only in the
\* $connect of a request whose token the Authorizer allowed and whose subject
\* is u; a push goes to the connectionId the item's lookup returned for the
\* item's user; no client receives a message addressed to another user.
C32_PushIsolation ==
    /\ [][/\ \A u \in Users :
                 conns'[u] # conns[u]
                 => \E p \in Procs :
                        /\ auth[p].result = "Allow"
                        /\ auth'[p].pc = "connected" /\ auth[p].pc = "done"
                        /\ \E tk \in issued :
                               /\ tk.id = auth[p].token
                               /\ tk.sub = u
                               /\ live'[u] = conns'[u]
          /\ \A v \in Users :
                 received'[v] # received[v]
                 => \E e \in execs \ execs' :
                        /\ e.state = "Send message"
                        /\ Item(e).userId = v
                        /\ e.conn = live[v]
                        /\ e.conn = lastConn[v]
                        /\ received'[v] = Append(received[v], Item(e))]_vars
    /\ [](\A v \in Users : \A i \in 1..Len(received[v]) :
              received[v][i].userId = v)

\* Both users are connected and one of them has received a message.
C32_Witness ==
    /\ \A u \in Users : conns[u] # {} /\ live[u] = conns[u]
    /\ \E v \in Users : received[v] # <<>>

\* C34 (a token is consumed by any attempt): once an invocation has found
\* the token, the table no longer holds it, whether the invocation then
\* allows or rejects; no invocation allows a token that another one found and
\* rejected.
C34_TokenConsumed ==
    /\ \A p \in Procs :
          auth[p].removed => ~\E it \in tokens : it.token = auth[p].token
    /\ \A p, q \in Procs :
          (/\ auth[p].removed
           /\ auth[p].result = "Unauthorized"
           /\ auth[q].token = auth[p].token
           /\ auth[q].pc # "start")
          => auth[q].result # "Allow"

\* A token was found and rejected, and presented once more.
C34_Witness ==
    \E p, q \in Procs :
        /\ auth[p].removed /\ auth[p].result = "Unauthorized"
        /\ p # q /\ auth[q].pc = "done" /\ auth[q].token = auth[p].token
        /\ \E tk \in issued : tk.id = auth[p].token /\ tk.iss = SERVICE

\* The queue entries, visible or held by an execution.
Entries == Range(queue) \cup UNION {Range(e.batch) : e \in execs}

\* How far an item has come in the ItemProcessor.
Rank(state) ==
    CASE state = "Get connectionId" -> 1
      [] state = "Send message?" -> 2
      [] state = "Send message" -> 3
      [] state = "Store message" -> 4
      [] OTHER -> 5

\* The executions that have not ended.
Running == {e \in execs : e.state \notin {"SUCCEEDED", "FAILED"}}

\* C35 (every run terminates): each transition takes an item to a later
\* state of the ItemProcessor, so an item ends within four transitions; an
\* item that ended without failing was either pushed or stored, not both;
\* an execution at work leads to one that has ended.
C35_RunTerminates ==
    /\ [][\A e \in Running :
             e \notin execs'
             => \E f \in execs' \ execs :
                    /\ f.batch = e.batch
                    /\ \/ f.i = e.i /\ Rank(f.state) > Rank(e.state)
                       \/ f.i = e.i + 1 /\ f.state = "Get connectionId"
                          /\ Len(f.out) = e.i]_vars
    /\ [](\A e \in execs : \A j \in 1..Len(e.out) :
              ("pushed" \in e.out[j]) # ("stored" \in e.out[j]))
    /\ [](\A e \in execs : e.state = "SUCCEEDED" => Len(e.out) = Len(e.batch))
    /\ \A u \in Users :
          (\E e \in Running : Item(e).userId = u)
          ~> ~(\E e \in Running : Item(e).userId = u)

\* An execution succeeded on a batch of two: one item pushed, one stored.
C35_Witness ==
    \E e \in execs :
        /\ e.state = "SUCCEEDED"
        /\ Len(e.out) = 2
        /\ \E j, k \in 1..2 : "pushed" \in e.out[j] /\ "stored" \in e.out[k]

\* C36 (a run visits each key once and ends): a page holds stored items of
\* the run's user beyond the start key, in strictly ascending order, and the
\* next start key is the page's last key, so no later page holds a key of an
\* earlier one; a run re-injects no more entries than the user had pending
\* when it started; a run at work leads to the handler's return.
C36_ReplayVisitsOnce ==
    /\ [][(rp.state = "query" /\ rp'.state = "send")
          => LET page == rp'.page
             IN /\ Len(page) \in 1..PageSize
                /\ \A i \in 1..Len(page) :
                       /\ page[i] \in store
                       /\ page[i].userId = ReplayUser
                       /\ \A c \in rp.cursor : page[i].timestamp > c
                       /\ \A j \in 1..(i - 1) :
                              page[j].timestamp < page[i].timestamp
                /\ rp'.cursor \subseteq {page[Len(page)].timestamp}
                /\ rp'.inj = rp.inj]_vars
    /\ [](rp.state # "idle" => rp.inj <= rp.start)
    /\ [](rp.last.inj <= rp.last.start)
    /\ (rp.state # "idle") ~> (rp.state = "idle")

\* A run is at work on its second page.
C36_Witness ==
    /\ rp.state \in {"send", "delete"}
    /\ rp.inj >= PageSize
    /\ rp.page # <<>>
    /\ rp.page[1].timestamp > PageSize

\* C37 (safeStringEquals): the call returns true exactly when both arguments
\* are strings with the same code units, so for two strings it agrees with
\* ===; with an undefined or non-string argument it returns false.
C37_SafeStringEquals ==
    cmp.pc = "returned"
    => /\ cmp.ret = (/\ cmp.a.type = "string"
                     /\ cmp.b.type = "string"
                     /\ cmp.a.chars = cmp.b.chars)
       /\ (cmp.a = Undefined \/ cmp.b = Undefined) => ~cmp.ret
       /\ (cmp.a.type = "string" /\ cmp.b.type = "string")
          => cmp.ret = (cmp.a = cmp.b)

\* The loop ran over two strings of the same length that differ in the first
\* code unit only, and the call returned.
C37_Witness ==
    /\ cmp.pc = "returned"
    /\ cmp.a.type = "string" /\ cmp.b.type = "string"
    /\ Len(cmp.a.chars) = MaxStrLen /\ Len(cmp.b.chars) = MaxStrLen
    /\ cmp.a.chars[1] # cmp.b.chars[1]
    /\ cmp.a.chars[MaxStrLen] = cmp.b.chars[MaxStrLen]
    /\ cmp.i > MaxStrLen

\* The fields of a message body.
BodyFields == {"userId", "timestamp", "message"}

\* C33 (store/replay round trip): the digits "Store message" writes are read
\* back as the same number; a page holds stored items as they are; the
\* entries a replay run adds to the queue carry exactly the page's items, in
\* order; so every re-injected entry, after one cycle or more, has the
\* userId, timestamp and message the Message API accepted.
C33_RoundTrip ==
    /\ [](\A n \in 0..MaxSample : parseInt(string(n)) = n)
    /\ [](\A en \in Entries :
             en.replay => /\ DOMAIN en.body = BodyFields
                          /\ \E i \in 1..Len(accepted) : accepted[i].body = en.body)
    /\ [][/\ (rp.state = "query" /\ rp'.state = "send")
             => Range(rp'.page) \subseteq store
          /\ (rp.state = "send" /\ rp' # rp)
             => /\ Len(queue') >= Len(queue)
                /\ SubSeq(queue', 1, Len(queue)) = queue
                /\ \E ok \in SUBSET (1..Len(rp.page)) :
                       [i \in 1..(Len(queue') - Len(queue)) |->
                           queue'[Len(queue) + i].body] = SelectIdx(rp.page, ok, 1)
          /\ \A e \in execs : \A f \in After(e) :
                 e.state = "Store message" => Item(e) \in store']_vars

\* A second cycle: an execution has stored a re-injected entry again, and a
\* replay run has put that message into the queue once more.
C33_Witness ==
    \E e \in execs : \E j \in 1..Len(e.out) : \E i \in 1..Len(queue) :
        /\ e.batch[j].replay
        /\ "stored" \in e.out[j]
        /\ queue[i].replay
        /\ queue[i].body = e.batch[j].body

\* C21 (replay keeps the original sequence): every entry, re-injected ones
\* included, carries a body the Message API accepted, timestamp included; so
\* does every stored item, and the table never holds two items for one
\* message.
C21_ReplayKeepsSequence ==
    /\ \A en \in Entries : en.body \in Range(AcceptedOf(en.body.userId))
    /\ \A r \in store : r \in Range(AcceptedOf(r.userId))
    /\ \A r1, r2 \in store :
          (r1.userId = r2.userId /\ r1.message = r2.message) => r1 = r2

\* A re-injected entry was stored again, under the key it had.
C21_Witness ==
    \E e \in execs : \E j \in 1..Len(e.out) :
        /\ e.batch[j].replay
        /\ "stored" \in e.out[j]
        /\ e.batch[j].body \in store

\* No token issued, no Authorizer invoked, no request answered.
SideInit ==
    /\ now = 0
    /\ tokens = {}
    /\ issued = {}
    /\ auth = [p \in Procs |-> NotInvoked]
    /\ response = NoResponse
    /\ inflight = {}
    /\ cmp = NoCompare

\* The gateway after deployment, with f faults and b events allowed.
GatewayInit(f, b) ==
    /\ clock = 1
    /\ accepted = <<>>
    /\ queue = <<>>
    /\ dlq = <<>>
    /\ execs = {}
    /\ conns = [u \in Users |-> {}]
    /\ live = [u \in Users |-> {}]
    /\ nconn = 0
    /\ stream = <<>>
    /\ store = {}
    /\ rp = Idle
    /\ received = [u \in Users |-> <<>>]
    /\ faults = f
    /\ budget = b
    /\ attempt = <<>>
    /\ maxStarted = [u \in Users |-> 0]
    /\ hist = [u \in Users |-> <<>>]
    /\ lastConn = [u \in Users |-> {}]
    /\ restored = {}

Init == GatewayInit(MaxFaults, MaxEvents) /\ SideInit

Next ==
    \/ \E u \in Users : PostMessage(u)
    \/ \E u \in Users : Connect(u)
    \/ \E u \in Users : Disconnect(u)
    \/ PipePoll
    \/ \E e \in execs : GetConnectionId(e)
    \/ \E e \in execs : Choice(e)
    \/ \E e \in execs : SendMessage(e)
    \/ \E e \in execs : StoreMessage(e)
    \/ \E e \in execs : PipeDelete(e)
    \/ \E e \in execs : PipeRetry(e)
    \/ ReplayInvoke
    \/ ReplayQuery
    \/ ReplaySend
    \/ ReplayDelete

Spec == Init /\ [][Next]_vars

\* The event source mapping keeps polling the stream and invoking the
\* handler, and an invocation runs to its return.
SpecLive ==
    /\ Spec
    /\ WF_vars(ReplayInvoke)
    /\ WF_vars(ReplayQuery)
    /\ WF_vars(ReplaySend)
    /\ WF_vars(ReplayDelete)

\* --------------------------------------------------- replay of a long backlog
\* User u1 was sent n messages at n different milliseconds while it had no
\* connection record, every one of them was stored, and u1 has now connected:
\* the stream holds the INSERT record of that connect.
InitReplay ==
    \E n \in 0..MaxPending :
        /\ clock = Max(n, 1)
        /\ accepted = [t \in 1..n |->
                         [body |-> MessageBody("u1", t, t), offline |-> TRUE]]
        /\ queue = <<>>
        /\ dlq = <<>>
        /\ execs = {}
        /\ conns = [u \in Users |-> IF u = "u1" THEN {1} ELSE {}]
        /\ live = [u \in Users |-> IF u = "u1" THEN {1} ELSE {}]
        /\ nconn = 1
        /\ stream = <<StreamRecord("u1", {})>>
        /\ store = {MessageBody("u1", t, t) : t \in 1..n}
        /\ rp = Idle
        /\ received = [u \in Users |-> <<>>]
        /\ faults = MaxFaults
        /\ budget = MaxFaults
        /\ attempt = <<>>
        /\ maxStarted = [u \in Users |-> IF u = "u1" THEN n ELSE 0]
        /\ hist = [u \in Users |-> <<>>]
        /\ lastConn = [u \in Users |-> IF u = "u1" THEN {1} ELSE {}]
        /\ restored = {}
        /\ SideInit

\* The pipe, the executions and the Lambda run; no request arrives and the
\* client stays connected, so no run reaches "Store message" (NoStoreState).
NextReplay ==
    \/ PipePoll
    \/ \E e \in execs : GetConnectionId(e)
    \/ \E e \in execs : Choice(e)
    \/ \E e \in execs : SendMessage(e)
    \/ \E e \in execs : PipeDelete(e)
    \/ \E e \in execs : PipeRetry(e)
    \/ ReplayInvoke
    \/ ReplayQuery
    \/ ReplaySend
    \/ ReplayDelete

SpecReplay == InitReplay /\ [][NextReplay]_vars

\* The token service alone; a token issued under an earlier service name may
\* still be in the table.
InitAuth ==
    /\ GatewayInit(MaxFaults, MaxEvents)
    /\ now = 0
    /\ \E legacy \in SUBSET {LegacyToken} :
         /\ issued = legacy
         /\ tokens = {TokenItem(tk) : tk \in legacy}
    /\ auth = [p \in Procs |-> NotInvoked]
    /\ response = NoResponse
    /\ inflight = {}
    /\ cmp = NoCompare

\* What a client may put in the query string: a token it was given, or
\* anything else.
PresentedIds == {tk.id : tk \in issued} \cup {UnknownId}

NextAuth ==
    \/ \E u \in Users : Generate(u)
    \/ TtlExpire
    \/ \E p \in Procs : \E id \in PresentedIds : AuthRemove(p, id)
    \/ \E p \in Procs : AuthValidate(p)
    \/ Tick

SpecAuth == InitAuth /\ [][NextAuth]_vars

\* The Message API alone, on arbitrary request bodies.
NextIngest == \E req \in Requests : PostRequest(req)

SpecIngest == Init /\ [][NextIngest]_vars

\* The queue, the pipe and the executions with enough faults for a message to
\* use up its receives; u1's client has connected, no further $connect comes.
InitRetry ==
    /\ clock = 1
    /\ accepted = <<>>
    /\ queue = <<>>
    /\ dlq = <<>>
    /\ execs = {}
    /\ conns = [u \in Users |-> IF u = "u1" THEN {1} ELSE {}]
    /\ live = [u \in Users |-> IF u = "u1" THEN {1} ELSE {}]
    /\ nconn = 1
    /\ stream = <<>>
    /\ store = {}
    /\ rp = Idle
    /\ received = [u \in Users |-> <<>>]
    /\ faults = MaxRetryFaults
    /\ budget = MaxRetryEvents
    /\ attempt = <<>>
    /\ maxStarted = [u \in Users |-> 0]
    /\ hist = [u \in Users |-> <<>>]
    /\ lastConn = [u \in Users |-> IF u = "u1" THEN {1} ELSE {}]
    /\ restored = {}
    /\ SideInit

NextRetry ==
    \/ \E u \in Users : PostMessage(u)
    \/ \E u \in Users : Disconnect(u)
    \/ PipePoll
    \/ \E e \in execs : GetConnectionId(e)
    \/ \E e \in execs : Choice(e)
    \/ \E e \in execs : SendMessage(e)
    \/ \E e \in execs : StoreMessage(e)
    \/ \E e \in execs : PipeDelete(e)
    \/ \E e \in execs : PipeRetry(e)

SpecRetry == InitRetry /\ [][NextRetry]_vars

\* The README's test: messages a, b, c have been posted for u1, who never
\* connected; requestTimeEpoch does not decrease from one to the next.
InitScenario ==
    \E t \in [1..ScenarioLen -> 1..ScenarioLen] :
        /\ \A i \in 1..(ScenarioLen - 1) : t[i] <= t[i + 1]
        /\ clock = t[ScenarioLen]
        /\ accepted = [i \in 1..ScenarioLen |->
                          [body |-> MessageBody("u1", t[i], i), offline |-> TRUE]]
        /\ queue = [i \in 1..ScenarioLen |->
                       [body |-> accepted[i].body, rc |-> 0, replay |-> FALSE]]
        /\ dlq = <<>>
        /\ execs = {}
        /\ conns = [u \in Users |-> {}]
        /\ live = [u \in Users |-> {}]
        /\ nconn = 0
        /\ stream = <<>>
        /\ store = {}
        /\ rp = Idle
        /\ received = [u \in Users |-> <<>>]
        /\ faults = 0
        /\ budget = 1
        /\ attempt = <<>>
        /\ maxStarted = [u \in Users |-> 0]
        /\ hist = [u \in Users |-> <<>>]
        /\ lastConn = [u \in Users |-> {}]
        /\ restored = {}
        /\ SideInit

\* Step 7 of the test: the client connects once the messages of step 6 have
\* been processed.
ConnectAtRest(u) ==
    /\ queue = <<>>
    /\ execs = {}
    /\ Connect(u)

\* Nothing fails and the client stays connected.
NextScenario ==
    \/ ConnectAtRest("u1")
    \/ PipePoll
    \/ \E e \in execs : GetConnectionId(e)
    \/ \E e \in execs : Choice(e)
    \/ \E e \in execs : SendMessage(e)
    \/ \E e \in execs : StoreMessage(e)
    \/ \E e \in execs : PipeDelete(e)
    \/ ReplayInvoke
    \/ ReplayQuery
    \/ ReplaySend
    \/ ReplayDelete

SpecScenario == InitScenario /\ [][NextScenario]_vars

\* Clients that get a token, connect with it and are sent messages; no push
\* fails but through a closed socket.
InitPush == GatewayInit(0, MaxPushEvents) /\ SideInit

NextPush ==
    \/ \E u \in Users : Generate(u)
    \/ \E p \in Procs : \E id \in PresentedIds : AuthRemove(p, id)
    \/ \E p \in Procs : AuthValidate(p)
    \/ \E p \in Procs : ConnectAuthorized(p)
    \/ \E u \in Users : PostMessage(u)
    \/ \E u \in Users : Disconnect(u)
    \/ PipePoll
    \/ \E e \in execs : GetConnectionId(e)
    \/ \E e \in execs : Choice(e)
    \/ \E e \in execs : SendMessage(e)
    \/ \E e \in execs : StoreMessage(e)
    \/ \E e \in execs : PipeDelete(e)

SpecPush == InitPush /\ [][NextPush]_vars

\* One call of safeStringEquals on any two values.
InitEquals ==
    /\ GatewayInit(MaxFaults, MaxEvents)
    /\ now = 0
    /\ tokens = {}
    /\ issued = {}
    /\ auth = [p \in Procs |-> NotInvoked]
    /\ response = NoResponse
    /\ inflight = {}
    /\ \E a, b \in Values :
          cmp = [pc |-> "enter", a |-> a, b |-> b, i |-> 1, result |-> 0,
                 ret |-> FALSE]

NextEquals ==
    \/ EqualsEnter
    \/ EqualsLoop
    \/ EqualsReturn

SpecEquals == InitEquals /\ [][NextEquals]_vars

\* A handler that was invoked runs to its return.
SpecReplayRun ==
    /\ SpecReplay
    /\ WF_vars(ReplayQuery)
    /\ WF_vars(ReplaySend)
    /\ WF_vars(ReplayDelete)

\* Step Functions takes every transition of an execution it has started.
SpecRun ==
    /\ SpecRetry
    /\ WF_vars(\E e \in execs : GetConnectionId(e))
    /\ WF_vars(\E e \in execs : Choice(e))
    /\ WF_vars(\E e \in execs : SendMessage(e))
    /\ WF_vars(\E e \in execs : StoreMessage(e))

\* Concurrent producers and users that never connect: every message is
\* stored.
NextArrival ==
    \/ \E u \in Users : Stamp(u)
    \/ \E body \in inflight : Enqueue(body)
    \/ PipePoll
    \/ \E e \in execs : GetConnectionId(e)
    \/ \E e \in execs : Choice(e)
    \/ \E e \in execs : StoreMessage(e)
    \/ \E e \in execs : PipeDelete(e)

SpecArrival == Init /\ [][NextArrival]_vars
====
